---------------------------- MODULE Spec2Model ----------------------------
(***************************************************************************)
(* The VM-to-Hack translator of week08/src/main.rs.                        *)
(*                                                                         *)
(* Two specifications share the module:                                    *)
(*   Spec      main(): bootstrap, then translate_vm for every unit, the    *)
(*             jump counter threaded through, the output file written.     *)
(*   SpecExec  the assembly that the generators emit, assembled and run    *)
(*             on the 16-bit target machine one instruction at a time.     *)
(*                                                                         *)
(* Emitted assembly is a sequence of instruction records, one per line of  *)
(* the emitted text: an address load (@number or @symbol), a compute       *)
(* instruction dest=comp;jump, or a label definition (NAME).               *)
(***************************************************************************)
EXTENDS Integers, Sequences, FiniteSets, TLC

VARIABLES
    \* ---- main() / translate_vm ----
    mpc,          \* position of main: "start", "units", "lines", "done", "panic"
    needBoot,     \* input_vms.2: the input was a directory
    nUnits,       \* input_vms.0.len()
    unitIdx,      \* index of the unit being (or next to be) translated
    jump_count,   \* main's jump_count
    file,         \* the text written to the output file, one entry per write_all
    units,        \* the lines read so far, per unit (the input as consumed)
    t_jump_count, \* translate_vm's local jump_count
    func_name,    \* translate_vm's func_name
    result_asm,   \* translate_vm's result_asm, one entry per translated command
    \* ---- the target machine ----
    rom,          \* the assembled program
    PC, A, D,     \* program counter, address register, data register
    ram,          \* data memory, as the set of words written (all others 0)
    scen,         \* the program under execution and its inputs
    mark,         \* per VM command of the program: memory when its code was last entered
    \* ---- one function applied to one input ----
    fn_in,        \* the arguments
    fn_out        \* the result, once the function has returned

mvars == <<mpc, needBoot, nUnits, unitIdx, jump_count, file, units,
           t_jump_count, func_name, result_asm>>
xvars == <<rom, PC, A, D, ram, scen, mark>>
pvars == <<fn_in, fn_out>>
vars  == <<mvars, xvars, pvars>>

-----------------------------------------------------------------------------
(* Machine words *)

\* u16 (VMCommand's numeric field) and the width of the target's registers
WordBits == 16
Modulus == 2 ^ WordBits
Word(n) == n % Modulus
Signed(w) == IF w >= Modulus \div 2 THEN w - Modulus ELSE w

RECURSIVE BitAnd(_, _, _)
BitAnd(x, y, k) ==
    IF k = 0 THEN 0
    ELSE (IF x % 2 = 1 /\ y % 2 = 1 THEN 1 ELSE 0)
         + 2 * BitAnd(x \div 2, y \div 2, k - 1)

RECURSIVE BitOr(_, _, _)
BitOr(x, y, k) ==
    IF k = 0 THEN 0
    ELSE (IF x % 2 = 1 \/ y % 2 = 1 THEN 1 ELSE 0)
         + 2 * BitOr(x \div 2, y \div 2, k - 1)

BitNot(x) == Modulus - 1 - x

-----------------------------------------------------------------------------
(* Lines of emitted assembly *)

AtN(n)     == [t |-> "A", sym |-> "",  num |-> n, dest |-> "", comp |-> "", jump |-> ""]
AtS(s)     == [t |-> "A", sym |-> s,   num |-> 0, dest |-> "", comp |-> "", jump |-> ""]
Cm(d, c)   == [t |-> "C", sym |-> "",  num |-> 0, dest |-> d,  comp |-> c,  jump |-> ""]
Jm(d, c, j) == [t |-> "C", sym |-> "", num |-> 0, dest |-> d,  comp |-> c,  jump |-> j]
Lb(s)      == [t |-> "L", sym |-> s,   num |-> 0, dest |-> "", comp |-> "", jump |-> ""]

\* a generator's result: Ok((jump_count, text)) or Err
Ok(jc, asm) == [ok |-> TRUE, jc |-> jc, asm |-> asm]
Err         == [ok |-> FALSE, jc |-> 0, asm |-> <<>>]

-----------------------------------------------------------------------------
(* VMCommand and the code generators *)

\* enum VMCommand: a variant tag, its String field and its u16 field
VMCommand(tag, seg, idx) == [tag |-> tag, seg |-> seg, idx |-> idx]

\* Result<&str, String>: ok with the mnemonic, or the error
OkStr(v) == [ok |-> TRUE, v |-> v]
ErrStr   == [ok |-> FALSE, v |-> ""]

\* every segment name taken for a base register
get_mem_seg_lenient(seg) ==
    CASE seg = "local"    -> OkStr("LCL")
      [] seg = "argument" -> OkStr("ARG")
      [] seg = "this"     -> OkStr("THIS")
      [] OTHER            -> OkStr("THAT")

get_mem_seg(seg) ==
    CASE seg = "local"    -> OkStr("LCL")
      [] seg = "argument" -> OkStr("ARG")
      [] seg = "this"     -> OkStr("THIS")
      [] seg = "that"     -> OkStr("THAT")
      [] OTHER            -> ErrStr

get_bi_op(comm) ==
    CASE comm = "add" -> OkStr("+")
      [] comm = "sub" -> OkStr("-")
      [] comm = "and" -> OkStr("&")
      [] comm = "or"  -> OkStr("|")
      [] OTHER        -> ErrStr

get_si_op(comm) ==
    CASE comm = "neg" -> OkStr("-")
      [] comm = "not" -> OkStr("!")
      [] OTHER        -> ErrStr

\* eq branching on "not equal"
get_cmp_op_ne(comm) ==
    CASE comm = "eq" -> OkStr("JNE")
      [] comm = "gt" -> OkStr("JGT")
      [] comm = "lt" -> OkStr("JLT")
      [] OTHER       -> ErrStr

get_cmp_op(comm) ==
    CASE comm = "eq" -> OkStr("JEQ")
      [] comm = "gt" -> OkStr("JGT")
      [] comm = "lt" -> OkStr("JLT")
      [] OTHER       -> ErrStr

\* "@SP\nAM=M+1\nA=A-1\nM=D"
asm_stk_push == <<AtS("SP"), Cm("AM", "M+1"), Cm("A", "A-1"), Cm("M", "D")>>

\* format!("{fname}$ret.{jump_count}")
return_addr(fname, jc) == fname \o "$ret." \o ToString(jc)

\* LCL = SP and ARG = SP - 5, the arguments not counted
call_reposition_keep_args(n_args) ==
    <<AtS("SP"), Cm("D", "M"), AtS("LCL"), Cm("M", "D"),
      AtN(5), Cm("D", "D-A"), AtS("ARG"), Cm("M", "D")>>

\* "@SP\nD=M\n@LCL\nM=D\n@5\nD=D-A\n@{n_args}\nD=D-A\n@ARG\nM=D"
call_reposition(n_args) ==
    <<AtS("SP"), Cm("D", "M"), AtS("LCL"), Cm("M", "D"),
      AtN(5), Cm("D", "D-A"), AtN(n_args), Cm("D", "D-A"), AtS("ARG"), Cm("M", "D")>>

\* the counter handed back by a call as it came
call_same_count(jc) == jc

\* Ok((jump_count + 1, ret_)): the counter a call hands back
call_next_count(jc) == jc + 1

ccall2asm(fname, n_args, jc) ==
    LET ra == return_addr(fname, jc) IN
    Ok(call_next_count(jc),
       <<AtS(ra), Cm("D", "A")>> \o asm_stk_push
       \o <<AtS("LCL"), Cm("D", "M")>> \o asm_stk_push
       \o <<AtS("ARG"), Cm("D", "M")>> \o asm_stk_push
       \o <<AtS("THIS"), Cm("D", "M")>> \o asm_stk_push
       \o <<AtS("THAT"), Cm("D", "M")>> \o asm_stk_push
       \o call_reposition(n_args)
       \o <<AtS(fname), Jm("", "0", "JMP")>>
       \o <<Lb(ra)>>)

\* reg = *(frame - 1), the frame pointer left where it was
restore_keeps_frame(reg) ==
    <<AtS("R13"), Cm("A", "M-1"), Cm("D", "M"), AtS(reg), Cm("M", "D")>>

\* "@R13\nAM=M-1\nD=M\n@{reg}\nM=D": reg = *(--frame)
restore_from_frame(reg) ==
    <<AtS("R13"), Cm("AM", "M-1"), Cm("D", "M"), AtS(reg), Cm("M", "D")>>

\* *ARG = *SP, the word above the top of the stack
return_value_unpopped ==
    <<AtS("SP"), Cm("A", "M"), Cm("D", "M"), AtS("ARG"), Cm("A", "M"), Cm("M", "D")>>

\* "@SP\nAM=M-1\nD=M\n@ARG\nA=M\nM=D": *ARG = pop()
return_value_store ==
    <<AtS("SP"), Cm("AM", "M-1"), Cm("D", "M"), AtS("ARG"), Cm("A", "M"), Cm("M", "D")>>

\* retAddr = *(frame - 5) read after *ARG = pop()
creturn2asm_late_retaddr ==
    <<AtS("LCL"), Cm("D", "M"), AtS("R13"), Cm("M", "D")>>
    \o return_value_store
    \o <<AtS("R13"), Cm("D", "M"), AtN(5), Cm("A", "D-A"), Cm("D", "M"),
         AtS("R14"), Cm("M", "D")>>
    \o <<AtS("ARG"), Cm("D", "M"), AtS("SP"), Cm("M", "D+1")>>
    \o restore_from_frame("THAT")
    \o restore_from_frame("THIS")
    \o restore_from_frame("ARG")
    \o restore_from_frame("LCL")
    \o <<AtS("R14"), Cm("A", "M"), Jm("", "0", "JMP")>>

creturn2asm ==
    <<AtS("LCL"), Cm("D", "M"), AtS("R13"), Cm("M", "D")>>
    \o <<AtN(5), Cm("A", "D-A"), Cm("D", "M"), AtS("R14"), Cm("M", "D")>>
    \o return_value_store
    \o <<AtS("ARG"), Cm("D", "M"), AtS("SP"), Cm("M", "D+1")>>
    \o restore_from_frame("THAT")
    \o restore_from_frame("THIS")
    \o restore_from_frame("ARG")
    \o restore_from_frame("LCL")
    \o <<AtS("R14"), Cm("A", "M"), Jm("", "0", "JMP")>>

\* the zeroing loop repeated while the count is not negative
cfunction2asm_one_more(func, n_vars) ==
    IF n_vars = 0
    THEN <<Lb(func)>>
    ELSE <<Lb(func), AtN(n_vars), Cm("D", "A"),
           Lb(func \o "_rep"),
           AtS("SP"), Cm("AM", "M+1"), Cm("A", "A-1"), Cm("M", "0"),
           AtS(func \o "_rep"), Jm("D", "D-1", "JGE")>>

cfunction2asm(func, n_vars) ==
    IF n_vars = 0
    THEN <<Lb(func)>>
    ELSE <<Lb(func), AtN(n_vars), Cm("D", "A"),
           Lb(func \o "_rep"),
           AtS("SP"), Cm("AM", "M+1"), Cm("A", "A-1"), Cm("M", "0"),
           AtS(func \o "_rep"), Jm("D", "D-1", "JGT")>>

cgoto2asm(label, func) == <<AtS(func \o "$" \o label), Jm("", "0", "JMP")>>

\* the jump taken for positive values only
cif2asm_positive_only(label, func) ==
    <<AtS("SP"), Cm("AM", "M-1"), Cm("D", "M"),
      AtS(func \o "$" \o label), Jm("", "D", "JGT")>>

cif2asm(label, func) ==
    <<AtS("SP"), Cm("AM", "M-1"), Cm("D", "M"),
      AtS(func \o "$" \o label), Jm("", "D", "JNE")>>

\* the marker without the function's name
clabel2asm_unqualified(label, func) == <<Lb(label)>>

clabel2asm(label, func) == <<Lb(func \o "$" \o label)>>

\* a symbol that leaves the unit's name out
static_symbol_unqualified(static_name, idx) == "static." \o ToString(idx)

\* "@{static_name}.{idx}": the symbol of a static variable
static_symbol(static_name, idx) == static_name \o "." \o ToString(idx)

\* the value-loading prefix of a push, per segment: Ok(text) or Err
cpush2asm(seg, idx, static_name) ==
    LET s == CASE seg = "constant" -> Ok(0, <<AtN(idx), Cm("D", "A")>>)
               [] seg = "pointer" /\ idx = 0 -> Ok(0, <<AtS("THIS"), Cm("D", "M")>>)
               [] seg = "pointer" /\ idx = 1 -> Ok(0, <<AtS("THAT"), Cm("D", "M")>>)
               [] seg = "temp" ->
                    Ok(0, <<AtN(5), Cm("D", "A"), AtN(idx), Cm("A", "D+A"), Cm("D", "M")>>)
               [] seg = "static" ->
                    Ok(0, <<AtS(static_symbol(static_name, idx)), Cm("D", "M")>>)
               [] OTHER ->
                    LET mem_seg == get_mem_seg(seg) IN
                    IF mem_seg.ok
                    THEN Ok(0, <<AtS(mem_seg.v), Cm("D", "M"), AtN(idx),
                                 Cm("A", "D+A"), Cm("D", "M")>>)
                    ELSE Err
    IN  IF s.ok THEN Ok(0, s.asm \o asm_stk_push) ELSE Err

\* the word above the stack top fetched, SP lowered afterwards
pop_store_fetch_first ==
    <<AtS("R15"), Cm("M", "D"), AtS("SP"), Cm("A", "M"), Cm("D", "M"),
      AtS("SP"), Cm("M", "M-1"), AtS("R15"), Cm("A", "M"), Cm("M", "D")>>

\* the top word stored, SP left where it was
pop_store_keeps_sp ==
    <<AtS("R15"), Cm("M", "D"), AtS("SP"), Cm("A", "M-1"),
      Cm("D", "M"), AtS("R15"), Cm("A", "M"), Cm("M", "D")>>

\* "@R15\nM=D\n@SP\nAM=M-1\nD=M\n@R15\nA=M\nM=D": *R15 = pop()
pop_store ==
    <<AtS("R15"), Cm("M", "D"), AtS("SP"), Cm("AM", "M-1"),
      Cm("D", "M"), AtS("R15"), Cm("A", "M"), Cm("M", "D")>>

cpop2asm(seg, idx, static_name) ==
    LET s == CASE seg = "pointer" /\ idx = 0 -> Ok(0, <<AtS("THIS"), Cm("D", "A")>>)
               [] seg = "pointer" /\ idx = 1 -> Ok(0, <<AtS("THAT"), Cm("D", "A")>>)
               [] seg = "temp" ->
                    Ok(0, <<AtN(5), Cm("D", "A"), AtN(idx), Cm("D", "D+A")>>)
               [] seg = "static" ->
                    Ok(0, <<AtS(static_symbol(static_name, idx)), Cm("D", "A")>>)
               [] OTHER ->
                    LET mem_seg == get_mem_seg(seg) IN
                    IF mem_seg.ok
                    THEN Ok(0, <<AtS(mem_seg.v), Cm("D", "M"), AtN(idx), Cm("D", "D+A")>>)
                    ELSE Err
    IN  IF s.ok
        THEN Ok(0, s.asm \o pop_store)
        ELSE Err

\* the operands of a binary operation the other way round
bi_comp_swapped(op) == "D" \o op \o "M"

\* "MD=M{op}D"
bi_comp(op) == "M" \o op \o "D"

\* format!("JMP_FALSE{jump_count}")
jmp_false(jc) == "JMP_FALSE" \o ToString(jc)

\* the counter handed back as it came
cmp_same_count(jc) == jc

\* (jump_count + 1, v): the counter a comparison hands back
cmp_next_count(jc) == jc + 1

carithmetic2asm(comm, jc) ==
    CASE comm \in {"neg", "not"} ->
            Ok(jc,
               <<AtS("SP"), Cm("AM", "M-1"), Cm("MD", get_si_op(comm).v \o "M"),
                 AtS("SP"), Cm("M", "M+1")>>)
      [] comm \in {"add", "sub", "and", "or"} ->
            Ok(jc,
               <<AtS("SP"), Cm("AM", "M-1"), Cm("D", "M"), Cm("A", "A-1"),
                 Cm("MD", bi_comp(get_bi_op(comm).v))>>)
      [] comm \in {"eq", "gt", "lt"} ->
            Ok(cmp_next_count(jc),
               <<AtS("R15"), Cm("M", "-1"),
                 AtS("SP"), Cm("AM", "M-1"), Cm("D", "M"), Cm("A", "A-1"), Cm("D", "M-D"),
                 AtS(jmp_false(jc)), Jm("", "D", get_cmp_op(comm).v),
                 AtS("R15"), Cm("M", "0"),
                 Lb(jmp_false(jc)),
                 AtS("R15"), Cm("D", "M"), AtS("SP"), Cm("A", "M-1"), Cm("M", "D")>>)
      [] OTHER -> Err

\* Ok((jc', text)) or Err
to_asm(cmd, jc, static_name, curr_fname) ==
    CASE cmd.tag = "CArithmetic" -> carithmetic2asm(cmd.seg, jc)
      [] cmd.tag = "CPush" ->
            LET r == cpush2asm(cmd.seg, cmd.idx, static_name) IN
            IF r.ok THEN Ok(jc, r.asm) ELSE Err
      [] cmd.tag = "CPop" ->
            LET r == cpop2asm(cmd.seg, cmd.idx, static_name) IN
            IF r.ok THEN Ok(jc, r.asm) ELSE Err
      [] cmd.tag = "CLabel"    -> Ok(jc, clabel2asm(cmd.seg, curr_fname))
      [] cmd.tag = "CGoto"     -> Ok(jc, cgoto2asm(cmd.seg, curr_fname))
      [] cmd.tag = "CIf"       -> Ok(jc, cif2asm(cmd.seg, curr_fname))
      [] cmd.tag = "CFunction" -> Ok(jc, cfunction2asm(cmd.seg, cmd.idx))
      [] cmd.tag = "CReturn"   -> Ok(jc, creturn2asm)
      [] cmd.tag = "CCall"     -> ccall2asm(cmd.seg, cmd.idx, jc)

-----------------------------------------------------------------------------
(* Source lines and VMCommand::new *)

(* A line of a .vm file is a sequence of pieces: a word (a run of characters *)
(* without blank, tab or "//"), one blank " ", one tab "\t", or the comment  *)
(* opener "//".                                                              *)

IsSpace(e) == e \in {" ", "\t"}

\* &unwrapped[..unwrapped.find("//").unwrap_or(unwrapped.len())]
StripComment(line) ==
    IF \E i \in 1..Len(line) : line[i] = "//"
    THEN SubSeq(line, 1, (CHOOSE i \in 1..Len(line) :
                            line[i] = "//" /\ \A h \in 1..(i-1) : line[h] # "//") - 1)
    ELSE line

\* str::trim: leading and trailing white space removed
RECURSIVE TrimLeft(_)
TrimLeft(l) == IF l # <<>> /\ IsSpace(Head(l)) THEN TrimLeft(Tail(l)) ELSE l

RECURSIVE TrimRight(_)
TrimRight(l) ==
    IF l # <<>> /\ IsSpace(l[Len(l)]) THEN TrimRight(SubSeq(l, 1, Len(l) - 1)) ELSE l

Trim(l) == TrimRight(TrimLeft(l))

\* str::split(" "): the pieces between single blanks, empty ones included
RECURSIVE Split(_)
Split(l) ==
    IF \E i \in 1..Len(l) : l[i] = " "
    THEN LET i == CHOOSE j \in 1..Len(l) :
                     l[j] = " " /\ \A h \in 1..(j-1) : l[h] # " "
         IN  <<SubSeq(l, 1, i - 1)>> \o Split(SubSeq(l, i + 1, Len(l)))
    ELSE <<l>>

\* the text of a token
RECURSIVE Join(_)
Join(tok) == IF tok = <<>> THEN "" ELSE Head(tok) \o Join(Tail(tok))

\* the decimal numerals that occur in the lines, with their values
Numerals ==
    ("0" :> 0) @@ ("1" :> 1) @@ ("2" :> 2) @@ ("7" :> 7)
    @@ ("65535" :> 65535) @@ ("65536" :> 65536)

\* str::parse::<u16>: None for what is no numeral or exceeds u16
ParseU16(str) ==
    IF str \in DOMAIN Numerals /\ Numerals[str] < Modulus
    THEN [ok |-> TRUE, v |-> Numerals[str]]
    ELSE [ok |-> FALSE, v |-> 0]

Parsed(cmd) == [res |-> "ok", cmd |-> cmd]
ParseErr    == [res |-> "err", cmd |-> VMCommand("", "", 0)]
ParsePanic  == [res |-> "panic", cmd |-> VMCommand("", "", 0)]

\* v[1].trim().to_string(), v[2].trim().parse::<u16>().unwrap(): an index past
\* the tokens and a failed parse panic
WithNameAndNumber(tag, v) ==
    IF Len(v) < 3 THEN ParsePanic
    ELSE LET n == ParseU16(Join(Trim(v[3]))) IN
         IF n.ok THEN Parsed(VMCommand(tag, Join(Trim(v[2])), n.v)) ELSE ParsePanic

\* v[1].trim().to_string()
WithName(tag, v) ==
    IF Len(v) < 2 THEN ParsePanic ELSE Parsed(VMCommand(tag, Join(Trim(v[2])), 0))

\* VMCommand::new; v is 1-based here, v[0] of the source is v[1]
VMCommand_new(line) ==
    LET v  == Split(Trim(line))
        v0 == Join(v[1])
    IN  CASE v0 = "push"     -> WithNameAndNumber("CPush", v)
          [] v0 = "pop"      -> WithNameAndNumber("CPop", v)
          [] v0 \in {"sub", "add", "and", "or", "neg", "not", "eq", "gt", "lt"} ->
                                Parsed(VMCommand("CArithmetic", v0, 0))
          [] v0 = "label"    -> WithName("CLabel", v)
          [] v0 = "goto"     -> WithName("CGoto", v)
          [] v0 = "if-goto"  -> WithName("CIf", v)
          [] v0 = "function" -> WithNameAndNumber("CFunction", v)
          [] v0 = "return"   -> Parsed(VMCommand("CReturn", Join(Trim(v[1])), 0))
          [] v0 = "call"     -> WithNameAndNumber("CCall", v)
          [] OTHER           -> ParseErr

-----------------------------------------------------------------------------
(* translate_vm's loop body, on a parsed command *)

\* the generation context a unit's loop carries: jump_count and func_name
Ctx(jc, fname) == [jc |-> jc, fname |-> fname]

\* func_name left as it was by every command
next_func_name_kept(cmd, fname) == fname

\* lines 319-321: if let VMCommand::CFunction(fname, _) = vm_ { func_name = fname }
next_func_name(cmd, fname) == IF cmd.tag = "CFunction" THEN cmd.seg ELSE fname

\* lines 316-321: to_asm with the context, then the context's update;
\* Err leaves translate_vm through `?`
translate_cmd(cmd, ctx, static_name) ==
    LET ret_ == to_asm(cmd, ctx.jc, static_name, ctx.fname) IN
    IF ret_.ok
    THEN [ok |-> TRUE, asm |-> ret_.asm,
          ctx |-> Ctx(ret_.jc, next_func_name(cmd, ctx.fname))]
    ELSE [ok |-> FALSE, asm |-> <<>>, ctx |-> ctx]

\* the per-command texts of a command sequence folded through translate_cmd
\* (every command of cmds generates)
RECURSIVE translate_cmds(_, _, _)
translate_cmds(cmds, ctx, static_name) ==
    IF cmds = <<>> THEN <<>>
    ELSE LET r == translate_cmd(Head(cmds), ctx, static_name) IN
         <<r.asm>> \o translate_cmds(Tail(cmds), r.ctx, static_name)

RECURSIVE Flatten(_)
Flatten(ss) == IF ss = <<>> THEN <<>> ELSE Head(ss) \o Flatten(Tail(ss))

-----------------------------------------------------------------------------
(* The target: symbol resolution and the instruction cycle *)

Predefined ==
    [SP |-> 0, LCL |-> 1, ARG |-> 2, THIS |-> 3, THAT |-> 4,
     R13 |-> 13, R14 |-> 14, R15 |-> 15]

\* number of instructions (label lines take no ROM word) among asm[1..i]
InstrsUpTo(asm, i) == Cardinality({j \in 1..i : asm[j].t # "L"})

LabelsOf(asm) == {asm[i].sym : i \in {j \in 1..Len(asm) : asm[j].t = "L"}}

\* ROM address a label stands for: that of the next instruction after it
LabelAddr(asm, name) ==
    LET i == CHOOSE j \in 1..Len(asm) :
               /\ asm[j].t = "L" /\ asm[j].sym = name
               /\ \A h \in 1..(j-1) : ~(asm[h].t = "L" /\ asm[h].sym = name)
    IN  InstrsUpTo(asm, i)

\* first RAM address handed to a symbol that is neither predefined nor a label
VarBase == 16

VarSyms(asm) ==
    {asm[i].sym : i \in {j \in 1..Len(asm) :
        /\ asm[j].t = "A" /\ asm[j].sym # ""
        /\ asm[j].sym \notin DOMAIN Predefined
        /\ asm[j].sym \notin LabelsOf(asm)}}

FirstUse(asm, s) == CHOOSE i \in 1..Len(asm) :
    /\ asm[i].t = "A" /\ asm[i].sym = s
    /\ \A h \in 1..(i-1) : ~(asm[h].t = "A" /\ asm[h].sym = s)

VarAddr(asm, s) ==
    VarBase + Cardinality({v \in VarSyms(asm) : FirstUse(asm, v) < FirstUse(asm, s)})

Resolve(asm, s) ==
    IF s \in DOMAIN Predefined THEN Predefined[s]
    ELSE IF s \in LabelsOf(asm) THEN LabelAddr(asm, s)
    ELSE VarAddr(asm, s)

\* the ROM image: label lines dropped, every symbol replaced by its number
Assemble(asm) ==
    LET body == SelectSeq(asm, LAMBDA l : l.t # "L") IN
    [i \in 1..Len(body) |->
        IF body[i].t = "A" /\ body[i].sym # ""
        THEN AtN(Resolve(asm, body[i].sym))
        ELSE body[i]]

\* memory is the set of words set so far; a word never set reads 0
Rd(mem, a) == IF a \in DOMAIN mem THEN mem[a] ELSE 0
Wr(mem, a, v) == [x \in DOMAIN mem \cup {a} |-> IF x = a THEN v ELSE mem[x]]

\* @n loads the number as written, within the register's width
ALoad(n) == Word(n)

\* the ALU, for the mnemonics the generators emit
Comp(c, a, d, m) ==
    CASE c = "0"   -> 0
      [] c = "-1"  -> Word(0 - 1)
      [] c = "A"   -> a
      [] c = "D"   -> d
      [] c = "M"   -> m
      [] c = "-M"  -> Word(0 - m)
      [] c = "!M"  -> BitNot(m)
      [] c = "A-1" -> Word(a - 1)
      [] c = "D-1" -> Word(d - 1)
      [] c = "D+1" -> Word(d + 1)
      [] c = "M-1" -> Word(m - 1)
      [] c = "M+1" -> Word(m + 1)
      [] c = "D+A" -> Word(d + a)
      [] c = "D-A" -> Word(d - a)
      [] c = "M-D" -> Word(m - d)
      [] c = "M+D" -> Word(m + d)
      [] c = "D-M" -> Word(d - m)
      [] c = "D+M" -> Word(d + m)
      [] c \in {"M&D", "D&M"} -> BitAnd(m, d, WordBits)
      [] c \in {"M|D", "D|M"} -> BitOr(m, d, WordBits)

\* the jump condition on the ALU output, read as a signed word
Jumps(j, v) ==
    CASE j = ""    -> FALSE
      [] j = "JMP" -> TRUE
      [] j = "JEQ" -> Signed(v) = 0
      [] j = "JNE" -> Signed(v) # 0
      [] j = "JGT" -> Signed(v) > 0
      [] j = "JGE" -> Signed(v) >= 0
      [] j = "JLT" -> Signed(v) < 0

Halted == PC >= Len(rom)

\* mark, after control reaches pc with memory mem: the memory is recorded for
\* every VM command whose code starts at pc
Marked(pc, mem) ==
    [i \in DOMAIN mark |-> IF scen.starts[i] = pc THEN mem ELSE mark[i]]

\* one instruction cycle
Step ==
    /\ ~Halted
    /\ LET ins == rom[PC + 1] IN
       IF ins.t = "A"
       THEN /\ A' = ALoad(ins.num)
            /\ PC' = PC + 1
            /\ UNCHANGED <<D, ram>>
       ELSE LET v == Comp(ins.comp, A, D, Rd(ram, A)) IN
            /\ A' = IF ins.dest \in {"A", "AM"} THEN v ELSE A
            /\ D' = IF ins.dest \in {"D", "MD"} THEN v ELSE D
            /\ ram' = IF ins.dest \in {"M", "AM", "MD"} THEN Wr(ram, A, v) ELSE ram
            /\ PC' = IF Jumps(ins.jump, v) THEN A ELSE PC + 1
    /\ mark' = Marked(PC', ram')
    /\ UNCHANGED <<rom, scen, mvars, pvars>>

-----------------------------------------------------------------------------
(* SpecExec: programs of VM commands, translated as translate_vm translates  *)
(* them, assembled, and run from a chosen command                            *)

\* bounds of the executed programs
MaxArgs == 2
MaxLocals == 3
GarbageLen == 12

\* let stack_base_addr = 256
stack_base_addr == 256

\* a word value that no program writes (0x5555), left in the stack area at start
Garbage == Modulus \div 3

WordSamples == {0, 1, 2, 32767, 32768, 65535}
ArithOps == {"add", "sub", "and", "or", "neg", "not", "eq", "gt", "lt"}

\* caller's LCL, ARG, THIS, THAT at start
FrameSamples == {<<300, 310, 3000, 4000>>, <<1015, 1000, 32767, 65535>>}

\* a localCount beyond the signed range of a word
BigLocals == Modulus \div 2 + 1

PushC(v) == VMCommand("CPush", "constant", v)

\* the callee first, the caller last: F's body, then n pushed arguments and
\* `call F n`, whose return label is the end of the program
CallRetCmds(n, k, body) ==
    <<VMCommand("CFunction", "F", k)>> \o body
    \o <<VMCommand("CReturn", "return", 0)>>
    \o [i \in 1..n |-> PushC(10 + i)]
    \o <<VMCommand("CCall", "F", n)>>

\* a program with its text and the ROM address at which each command's text
\* starts; n, k: argCount and localCount; x, y: the pushed constants of an
\* "arith" program (in a "callret" program y is the length of F's body)
Scenario(kind, cmds, entry, n, k, x, y, op, frame) ==
    LET parts == translate_cmds(cmds, Ctx(0, "System"), "Main") IN
    [kind |-> kind, cmds |-> cmds, entry |-> entry,
     n |-> n, k |-> k, x |-> x, y |-> y, op |-> op, frame |-> frame,
     asm |-> Flatten(parts),
     starts |-> [i \in 1..Len(cmds) |->
                    InstrsUpTo(Flatten(SubSeq(parts, 1, i - 1)),
                               Len(Flatten(SubSeq(parts, 1, i - 1))))]]

\* two operands built from constants within the range of "@n", either one
\* negated, then a comparison
CmpCmds(a, na, b, nb, op) ==
    <<PushC(a)>> \o (IF na THEN <<VMCommand("CArithmetic", "neg", 0)>> ELSE <<>>)
    \o <<PushC(b)>> \o (IF nb THEN <<VMCommand("CArithmetic", "neg", 0)>> ELSE <<>>)
    \o <<VMCommand("CArithmetic", op, 0)>>

CmpSamples == {0, 1, 2, Modulus \div 2 - 1}

\* a value built from a constant and at most one unary operation, tested by
\* if-goto X; what is skipped when the jump is taken is one push
BranchCmds(a, un) ==
    <<PushC(a)>> \o (IF un = "" THEN <<>> ELSE <<VMCommand("CArithmetic", un, 0)>>)
    \o <<VMCommand("CIf", "X", 0), PushC(5), VMCommand("CLabel", "X", 0)>>

\* segment/index pairs of the addressing table, `constant` left out
PushPopPairs ==
    ({"local", "argument", "this", "that"} \X {0, 2, Modulus - 1})
    \cup ({"temp"} \X {0, 7, 10})
    \cup ({"static"} \X {0, 3})
    \cup ({"pointer"} \X {0, 1})

Scenarios ==
    {Scenario("arith", <<PushC(x), PushC(y), VMCommand("CArithmetic", op, 0)>>,
              1, 0, 0, x, y, op, <<300, 310, 3000, 4000>>) :
        x \in WordSamples, y \in WordSamples, op \in ArithOps}
    \cup
    {Scenario("callret", CallRetCmds(n, k, body), 3 + Len(body), n, k,
              0, Len(body), "", fr) :
        n \in 0..MaxArgs, k \in 0..MaxLocals,
        body \in {<<>>, <<PushC(77)>>}, fr \in FrameSamples}
    \cup
    {Scenario("function", <<VMCommand("CFunction", "Foo", k)>>,
              1, 0, k, 0, 0, "", <<300, 310, 3000, 4000>>) :
        k \in (0..MaxLocals) \cup {BigLocals}}
    \cup
    {Scenario("pushpop", <<VMCommand("CPush", p[1], p[2]), VMCommand("CPop", p[1], p[2])>>,
              1, 0, p[2], x, 0, p[1], <<300, 310, 3000, 4000>>) :
        p \in PushPopPairs, x \in {7, Modulus - 1}}
    \cup
    {Scenario("cmp", CmpCmds(a, na, b, nb, op), 1, 0, 0,
              Word(IF na THEN 0 - a ELSE a), Word(IF nb THEN 0 - b ELSE b), op,
              <<300, 310, 3000, 4000>>) :
        a \in CmpSamples, b \in CmpSamples, na \in BOOLEAN, nb \in BOOLEAN,
        op \in {"gt", "lt"}}
    \cup
    {Scenario("pop", <<PushC(x), VMCommand("CPop", p[1], p[2])>>,
              1, 0, p[2], x, 0, p[1], fr) :
        p \in PushPopPairs \cup {<<"that", 1>>}, x \in {7, Modulus \div 2 - 1},
        fr \in FrameSamples}
    \cup
    {Scenario("branch", BranchCmds(a, un), 1, 0, 0, a, 0, un, fr) :
        a \in CmpSamples, un \in {"", "neg", "not"}, fr \in FrameSamples}

\* the registers of a memory
SPv(mem)   == Rd(mem, 0)
LCLv(mem)  == Rd(mem, 1)
ARGv(mem)  == Rd(mem, 2)
THISv(mem) == Rd(mem, 3)
THATv(mem) == Rd(mem, 4)

\* registers SP, LCL, ARG, THIS, THAT, and an unused stack area
InitRam(frame) ==
    [a \in (0..4) \cup (stack_base_addr..(stack_base_addr + GarbageLen - 1)) |->
        CASE a = 0 -> stack_base_addr
          [] a \in 1..4 -> frame[a]
          [] OTHER -> Garbage]

\* no function under application
IdlePure == fn_in = <<>> /\ fn_out = <<>>

\* the addressing table: the address of seg idx, with the registers of mem,
\* in a program whose text is asm, translated with static_name "Main"
SegAddr(seg, idx, mem, asm) ==
    CASE seg = "local"    -> Word(LCLv(mem) + idx)
      [] seg = "argument" -> Word(ARGv(mem) + idx)
      [] seg = "this"     -> Word(THISv(mem) + idx)
      [] seg = "that"     -> Word(THATv(mem) + idx)
      [] seg = "temp"     -> Word(5 + idx)
      [] seg = "pointer"  -> IF idx = 0 THEN Predefined.THIS ELSE Predefined.THAT
      [] seg = "static"   -> Resolve(asm, "Main." \o ToString(idx))

\* memory at the start of a program: in a "pushpop" program the word of the
\* segment holds x
InitMem(sc) ==
    IF sc.kind = "pushpop"
    THEN Wr(InitRam(sc.frame), SegAddr(sc.op, sc.k, InitRam(sc.frame), sc.asm), sc.x)
    ELSE InitRam(sc.frame)

IdleMain ==
    /\ mpc = "idle" /\ needBoot = FALSE /\ nUnits = 0 /\ unitIdx = 0
    /\ jump_count = 0 /\ file = <<>> /\ units = <<>>
    /\ t_jump_count = 0 /\ func_name = "" /\ result_asm = <<>>

InitExec ==
    /\ scen \in Scenarios
    /\ rom = Assemble(scen.asm)
    /\ PC = scen.starts[scen.entry]
    /\ A = 0 /\ D = 0
    /\ ram = InitMem(scen)
    /\ mark = [i \in 1..Len(scen.cmds) |->
                 IF scen.starts[i] = PC THEN ram ELSE <<>>]
    /\ IdleMain /\ IdlePure

NextExec == Step

SpecExec == InitExec /\ [][NextExec]_vars

\* the machine executes an instruction in every cycle until the program ends
SpecExecLive == SpecExec /\ WF_vars(Step)

-----------------------------------------------------------------------------
(* Properties of the executed code *)

\* word on top of the stack of mem
Top(mem) == Rd(mem, Word(SPv(mem) - 1))

Bit(w, i) == (w \div (2 ^ i)) % 2

\* in a "callret" program: the positions of `return` and `call`, and the
\* memory when each began
CallIdx == Len(scen.cmds)
RetIdx  == Len(scen.cmds) - scen.n - 1
AtCall  == mark[CallIdx]
AtRet   == mark[RetIdx]
CallRetDone == scen.kind = "callret" /\ Halted

\* C1: after `call F n` and the `return` inside F, LCL, ARG, THIS and THAT hold
\* their values from just before the call and SP = (SP before the call - n) + 1.
C1_CallReturnRestoresFrame ==
    CallRetDone =>
        /\ LCLv(ram)  = LCLv(AtCall)
        /\ ARGv(ram)  = ARGv(AtCall)
        /\ THISv(ram) = THISv(AtCall)
        /\ THATv(ram) = THATv(AtCall)
        /\ SPv(ram) = Word(SPv(AtCall) - scen.n + 1)

C1_Witness ==
    /\ CallRetDone /\ scen.n = 2 /\ AtRet # <<>>
    /\ SPv(AtCall) = stack_base_addr + 2
    /\ LCLv(AtRet) # LCLv(ram)

\* C6: on entry to F after `call F n`, the five words from the pre-call SP are
\* the return address, LCL, ARG, THIS, THAT of the caller; SP is the pre-call
\* SP + 5, LCL = SP and ARG = pre-call SP - n.
C6_CallBuildsFrame ==
    (scen.kind = "callret" /\ PC = scen.starts[1]) =>
        LET S == SPv(AtCall) IN
        /\ Rd(ram, S)     = LabelAddr(scen.asm, return_addr("F", 0))
        /\ Rd(ram, S + 1) = LCLv(AtCall)
        /\ Rd(ram, S + 2) = ARGv(AtCall)
        /\ Rd(ram, S + 3) = THISv(AtCall)
        /\ Rd(ram, S + 4) = THATv(AtCall)
        /\ SPv(ram)  = S + 5
        /\ LCLv(ram) = SPv(ram)
        /\ ARGv(ram) = Word(S - scen.n)

C6_Witness ==
    /\ scen.kind = "callret" /\ PC = scen.starts[1] /\ scen.n = 2
    /\ ARGv(ram) = stack_base_addr
    /\ Rd(ram, stack_base_addr + 2) = Len(rom)

\* C7: after `return`, the word that was on top of the callee's stack when
\* `return` began is at SP - 1, which is the callee's ARG address.
C7_ReturnValueAtCallerTop ==
    CallRetDone =>
        /\ Word(SPv(ram) - 1) = ARGv(AtRet)
        /\ Top(ram) = Top(AtRet)

C7_Witness ==
    /\ CallRetDone /\ scen.n = 0 /\ scen.y = 1
    /\ Top(AtRet) = 77 /\ Top(ram) = 77

\* the outcome of `function name n` from memory mem0: n words of 0 from the
\* entry SP, SP raised by n, nothing else changed
ZeroedLocals(mem0, mem, n) ==
    /\ SPv(mem) = SPv(mem0) + n
    /\ \A a \in (DOMAIN mem) \cup (DOMAIN mem0) :
          CASE a = 0 -> TRUE
            [] a >= SPv(mem0) /\ a < SPv(mem0) + n -> Rd(mem, a) = 0
            [] OTHER -> Rd(mem, a) = Rd(mem0, a)

\* C8 as stated: for every localCount a u16 holds, `function name n` ends
\* with n zero words written from the entry SP and SP raised by n.
C8_FunctionZeroesAnyCount ==
    (scen.kind = "function" /\ Halted) =>
        ZeroedLocals(InitRam(scen.frame), ram, scen.k)

\* C8 amended: for every localCount from 0 to 32767, `function name n` runs to
\* its end and then n zero words are written from the entry SP, SP is raised
\* by n and no other word is changed; for n = 0 nothing changes.
C8_FunctionZeroesLocals ==
    /\ []((scen.kind = "function" /\ Halted /\ scen.k < Modulus \div 2) =>
            ZeroedLocals(InitRam(scen.frame), ram, scen.k))
    /\ (scen.kind = "function" /\ scen.k < Modulus \div 2) ~> Halted

C8_Witness ==
    /\ scen.kind = "function" /\ Halted /\ scen.k = 3
    /\ SPv(ram) = stack_base_addr + 3
    /\ Rd(ram, stack_base_addr + 2) = 0
    /\ Rd(ram, stack_base_addr + 3) = Garbage

\* in a "pop" program: the memory the pop starts from, the address the
\* addressing table gives for it, and the ROM address of the "AM=M-1" that
\* lowers SP
AtPop == mark[2]
PopDest == SegAddr(scen.op, scen.k, AtPop, scen.asm)
PopLowersSPAt == Len(rom) - 5

\* the effect of pop seg i as C22 states it
PopEffect ==
    /\ (PC = PopLowersSPAt) =>
           /\ Rd(ram, Predefined.R15) = PopDest
           /\ SPv(ram) = SPv(AtPop)
    /\ Halted =>
           /\ Rd(ram, PopDest) = Top(AtPop)
           /\ SPv(ram) = SPv(AtPop) - 1
           /\ \A a \in (DOMAIN ram \cup DOMAIN AtPop) \ {PopDest, Predefined.SP, Predefined.R15} :
                  Rd(ram, a) = Rd(AtPop, a)

\* C22 as stated: pop seg i saves the table address, computed from the
\* registers before the pop, in R15 before SP is lowered; it stores the former
\* top of the stack there, lowers SP by one and changes no word other than
\* the destination, SP and R15.
C22_PopEffectAnyDestination ==
    (scen.kind = "pop" /\ mark[2] # <<>>) => PopEffect

\* C22 amended: the same, for every destination other than the word of SP
\* itself (address 0).
C22_PopEffect ==
    (scen.kind = "pop" /\ mark[2] # <<>> /\ PopDest # Predefined.SP) => PopEffect

C22_Witness ==
    /\ scen.kind = "pop" /\ Halted /\ scen.op = "that" /\ scen.k = 2
    /\ THATv(AtPop) = Modulus - 1 /\ PopDest = Predefined.LCL
    /\ LCLv(ram) = scen.x /\ SPv(ram) = stack_base_addr
    /\ Rd(ram, Predefined.R15) = Predefined.LCL

\* in a "branch" program: the position of if-goto among the commands, the
\* memory it starts from and the address of the label it names
IfIdx == Len(scen.cmds) - 2
AtIf  == mark[IfIdx]
IfTargetAt == LabelAddr(scen.asm, "System$X")

\* C21: the text of if-goto X lowers SP by one and continues at
\* currentFunction$X exactly when the popped value is not 0; when it is 0 the
\* text of the next command runs.
C21_IfGoto ==
    (scen.kind = "branch") =>
        /\ (PC = scen.starts[IfIdx + 1] /\ mark[IfIdx + 1] # <<>>) =>
               /\ Top(AtIf) = 0
               /\ SPv(ram) = SPv(AtIf) - 1
        /\ Halted =>
               /\ PC = IfTargetAt
               /\ IF Top(AtIf) # 0
                  THEN mark[IfIdx + 1] = <<>> /\ SPv(ram) = SPv(AtIf) - 1
                  ELSE mark[IfIdx + 1] # <<>> /\ SPv(ram) = SPv(AtIf) /\ Top(ram) = 5

C21_Witness ==
    /\ scen.kind = "branch" /\ Halted /\ scen.op = "not" /\ scen.x = Modulus \div 2 - 1
    /\ Top(AtIf) = Modulus \div 2 /\ mark[IfIdx + 1] = <<>>
    /\ SPv(ram) = stack_base_addr

\* in a "cmp" program: the operands as the comparison finds them on the stack
CmpX == Rd(mark[Len(scen.cmds)], Word(SPv(mark[Len(scen.cmds)]) - 2))
CmpY == Top(mark[Len(scen.cmds)])

\* C19 as stated: gt leaves -1 exactly when x > y and lt exactly when x < y,
\* as signed 16-bit values, and 0 otherwise, for all pairs, those whose
\* difference leaves the 16-bit range included.
C19_SignedComparison ==
    (scen.kind = "cmp" /\ Halted) =>
        /\ CmpX = scen.x /\ CmpY = scen.y
        /\ Top(ram) = IF \/ scen.op = "gt" /\ Signed(CmpX) > Signed(CmpY)
                         \/ scen.op = "lt" /\ Signed(CmpX) < Signed(CmpY)
                      THEN Modulus - 1 ELSE 0

\* in a "callret" program: the ROM address of the return's closing "0;JMP" and
\* the address of the label the call defines after its own jump
ReturnJumpAt == scen.starts[RetIdx + 1] - 1
ReturnLabelAt == LabelAddr(scen.asm, "F$ret.0")

\* C18: the jump that closes the text of `return` goes to the return label of
\* the call, for every argCount from 0 on, also when the returned value has
\* taken the place of the saved return address (n = 0).
C18_ReturnJumpsToReturnLabel ==
    (scen.kind = "callret") =>
        /\ (PC = ReturnJumpAt) => (A = ReturnLabelAt)
        /\ Halted => (PC = ReturnLabelAt)

C18_Witness ==
    /\ CallRetDone /\ scen.n = 0 /\ scen.y = 1
    /\ rom[ReturnJumpAt + 1] = Jm("", "0", "JMP")
    /\ rom[ReturnLabelAt] = Jm("", "0", "JMP") /\ rom[ReturnLabelAt - 1].num = LabelAddr(scen.asm, "F")
    /\ PC = ReturnLabelAt /\ Top(ram) = 77

\* C11: push seg i followed by pop seg i, for the pairs of the addressing table
\* other than constant, ends with SP as before the push and with the pushed
\* value at the address of seg i.
C11_PushPopRoundTrip ==
    (scen.kind = "pushpop" /\ Halted) =>
        /\ SPv(ram) = SPv(mark[1])
        /\ Top(mark[2]) = scen.x
        /\ Rd(ram, SegAddr(scen.op, scen.k, mark[1], scen.asm)) = Top(mark[2])

C11_Witness ==
    /\ scen.kind = "pushpop" /\ Halted /\ scen.op = "static" /\ scen.k = 3
    /\ scen.x = 7 /\ Rd(ram, VarBase) = 7 /\ Rd(ram, stack_base_addr) = 7
    /\ SPv(ram) = stack_base_addr

ArithDone(ops) == scen.kind = "arith" /\ scen.op \in ops /\ Halted

\* C9: after push x, push y and add / sub / and / or, the top of the stack is
\* x+y / x-y modulo 2^16, x AND y / x OR y bit by bit, and the stack is one
\* word lower than before the operation.
C9_BinaryOps ==
    ArithDone({"add", "sub", "and", "or"}) =>
        /\ SPv(ram) = SPv(mark[3]) - 1
        /\ Top(ram) \in 0..(Modulus - 1)
        /\ scen.op = "add" => (Top(ram) - (scen.x + scen.y)) % Modulus = 0
        /\ scen.op = "sub" => (Top(ram) - (scen.x - scen.y)) % Modulus = 0
        /\ scen.op = "and" =>
              \A i \in 0..(WordBits - 1) :
                 Bit(Top(ram), i) = 1 <=> (Bit(scen.x, i) = 1 /\ Bit(scen.y, i) = 1)
        /\ scen.op = "or" =>
              \A i \in 0..(WordBits - 1) :
                 Bit(Top(ram), i) = 1 <=> (Bit(scen.x, i) = 1 \/ Bit(scen.y, i) = 1)

C9_Witness ==
    /\ ArithDone({"sub"}) /\ scen.x = 1 /\ scen.y = 2
    /\ Top(ram) = Modulus - 1
    /\ SPv(ram) = stack_base_addr + 1

\* C10: eq leaves -1 (all 16 bits set) on top when the two words are equal
\* and 0 when they differ, and lowers the stack by one word.
C10_EqSentinel ==
    ArithDone({"eq"}) =>
        /\ SPv(ram) = SPv(mark[3]) - 1
        /\ Top(ram) = IF scen.x = scen.y THEN Modulus - 1 ELSE 0

C10_Witness ==
    /\ ArithDone({"eq"}) /\ scen.x = 32768 /\ scen.y = 32768
    /\ Top(ram) = Modulus - 1

-----------------------------------------------------------------------------
(* Spec: main()                                                              *)

\* bounds of the translated input: units of a directory, lines read in all
MaxUnits == 2
MaxLines == 3

\* the lines a unit's reader may deliver
LineSet ==
    { <<"eq">>,
      <<"lt", " ", "//", "cmp">>,
      <<"call", " ", "Sys.init", " ", "0">>,
      <<"call", " ", "F", " ", "1">>,
      <<"push", " ", "constant", " ", "7">>,
      <<"function", " ", "F", " ", "0">>,
      <<>>,
      <<"//", "note">>,
      <<"bogus">>,
      <<"pop", " ", "constant", " ", "0">>,
      <<" ">>,
      <<"\t", "//", "note">> }

\* CompileTarget.static_name of the units, the file stems of one directory
StaticNames == <<"Main", "Sys", "Lib">>

\* the call written first, the stack pointer set after it
bootstrap_call_first(jump_cnt) ==
    [text |-> << ccall2asm("Sys.init", 0, 0).asm,
                 <<AtN(stack_base_addr), Cm("D", "A"), AtS("SP"), Cm("M", "D")>> >>,
     jc   |-> jump_cnt + 1]

\* bootstrap(jump_cnt): the text (SP = 256, then the call) and jump_cnt + 1
bootstrap(jump_cnt) ==
    [text |-> << <<AtN(stack_base_addr), Cm("D", "A"), AtS("SP"), Cm("M", "D")>>,
                 ccall2asm("Sys.init", 0, 0).asm >>,
     jc   |-> jump_cnt + 1]

RECURSIVE SumLen(_)
SumLen(ss) == IF ss = <<>> THEN 0 ELSE Len(Head(ss)) + SumLen(Tail(ss))

LinesRead == SumLen(units)

IdleExec ==
    /\ rom = <<>> /\ PC = 0 /\ A = 0 /\ D = 0 /\ ram = <<>>
    /\ scen = [kind |-> "none"] /\ mark = <<>>

\* parse_args' result and main up to line 341
Init ==
    /\ mpc = "start"
    /\ needBoot \in BOOLEAN
    /\ nUnits \in IF needBoot THEN 0..MaxUnits ELSE {1}
    /\ unitIdx = 1
    /\ jump_count = 0
    /\ file = <<>>
    /\ units = <<>>
    /\ t_jump_count = 0 /\ func_name = "" /\ result_asm = <<>>
    /\ IdleExec /\ IdlePure

\* lines 342-344: the bootstrap text is written; its counter is dropped
MainBootstrap ==
    /\ mpc = "start"
    /\ file' = IF needBoot THEN Append(file, bootstrap(jump_count).text) ELSE file
    /\ mpc' = "units"
    /\ UNCHANGED <<needBoot, nUnits, unitIdx, jump_count, units,
                   t_jump_count, func_name, result_asm, xvars, pvars>>

\* line 346 and lines 302-309: translate_vm is entered for the next unit
TranslateOpen ==
    /\ mpc = "units" /\ unitIdx <= nUnits
    /\ t_jump_count' = jump_count
    /\ func_name' = "System"
    /\ result_asm' = <<>>
    /\ units' = Append(units, <<>>)
    /\ mpc' = "lines"
    /\ UNCHANGED <<needBoot, nUnits, unitIdx, jump_count, file, xvars, pvars>>

\* lines 310-323: one pass of the loop, on the line the reader delivers
TranslateLine(line) ==
    /\ mpc = "lines" /\ LinesRead < MaxLines
    /\ units' = [units EXCEPT ![unitIdx] = Append(@, line)]
    /\ LET line_ == StripComment(line) IN
       IF Len(line_) = 0
       THEN UNCHANGED <<mpc, t_jump_count, func_name, result_asm>>
       ELSE LET vm_ == VMCommand_new(line_) IN
            IF vm_.res # "ok"
            THEN /\ mpc' = "panic"
                 /\ UNCHANGED <<t_jump_count, func_name, result_asm>>
            ELSE LET r == translate_cmd(vm_.cmd, Ctx(t_jump_count, func_name),
                                        StaticNames[unitIdx]) IN
                 IF ~r.ok
                 THEN /\ mpc' = "panic"
                      /\ UNCHANGED <<t_jump_count, func_name, result_asm>>
                 ELSE /\ t_jump_count' = r.ctx.jc
                      /\ func_name' = r.ctx.fname
                      /\ result_asm' = Append(result_asm, r.asm)
                      /\ UNCHANGED mpc
    /\ UNCHANGED <<needBoot, nUnits, unitIdx, jump_count, file, xvars, pvars>>

\* line 324 and lines 348-349: the unit's text and counter go back to main
TranslateEnd ==
    /\ mpc = "lines"
    /\ jump_count' = t_jump_count
    /\ file' = Append(file, result_asm)
    /\ unitIdx' = unitIdx + 1
    /\ mpc' = "units"
    /\ UNCHANGED <<needBoot, nUnits, units, t_jump_count, func_name, result_asm, xvars, pvars>>

\* line 351: the loop over the units is over
MainDone ==
    /\ mpc = "units" /\ unitIdx > nUnits
    /\ mpc' = "done"
    /\ UNCHANGED <<needBoot, nUnits, unitIdx, jump_count, file, units,
                   t_jump_count, func_name, result_asm, xvars, pvars>>

Next ==
    \/ MainBootstrap
    \/ TranslateOpen
    \/ \E line \in LineSet : TranslateLine(line)
    \/ TranslateEnd
    \/ MainDone

Spec == Init /\ [][Next]_vars

\* units made of accesses to static variables and empty lines
StaticLines ==
    { <<"push", " ", "static", " ", "2">>,
      <<"pop", " ", "static", " ", "2">>,
      <<"push", " ", "static", " ", "0">>,
      <<"pop", " ", "static", " ", "0">>,
      <<>> }

NextStatic ==
    \/ MainBootstrap
    \/ TranslateOpen
    \/ \E line \in StaticLines : TranslateLine(line)
    \/ TranslateEnd
    \/ MainDone

SpecStatic == Init /\ [][NextStatic]_vars

-----------------------------------------------------------------------------
(* Properties of the translation *)

\* the output file as the sequence of emitted fragments: the two parts of the
\* bootstrap text, then one fragment per translated command
OutFrags == Flatten(file)

\* what has been generated so far, the unit in progress included
Emitted == OutFrags \o (IF mpc = "lines" THEN result_asm ELSE <<>>)

\* a comparison's text opens with "@R15\nM=-1"
IsCmpFrag(f) == Len(f) > 1 /\ f[1] = AtS("R15") /\ f[2] = Cm("M", "-1")

\* a call's text closes with its return label, after "@{fname}\n0;JMP"
IsCallFrag(f) ==
    /\ Len(f) > 2 /\ f[Len(f)].t = "L"
    /\ f[Len(f) - 1] = Jm("", "0", "JMP")

\* the label a comparison or a call defines
FragLabel(f) == f[CHOOSE i \in 1..Len(f) : f[i].t = "L" /\ ~(\E h \in (i+1)..Len(f) : f[h].t = "L")].sym

\* fragment f defines a label minted from counter value k
MintedFrom(f, k) ==
    \/ IsCmpFrag(f) /\ FragLabel(f) = jmp_false(k)
    \/ IsCallFrag(f) /\ FragLabel(f) = return_addr(f[Len(f) - 2].sym, k)

\* C2 as stated: within one translation no jumpCounter value mints more than
\* one generated label, so every return label and comparison label of the
\* output is defined once.
C2_CounterValueMintsOneLabel ==
    /\ \A k \in 0..(MaxLines + 1) :
          Cardinality({i \in DOMAIN OutFrags : MintedFrom(OutFrags[i], k)}) <= 1
    /\ \A i, j \in DOMAIN OutFrags :
          (/\ i # j
           /\ IsCmpFrag(OutFrags[i]) \/ IsCallFrag(OutFrags[i])
           /\ IsCmpFrag(OutFrags[j]) \/ IsCallFrag(OutFrags[j]))
          => FragLabel(OutFrags[i]) # FragLabel(OutFrags[j])

\* C3 as stated: the bootstrap's call takes its return label from the counter
\* value c held before it (c = 0) and the first unit starts from c + 1.
C3_BootstrapConsumesCounter ==
    (needBoot /\ mpc = "lines" /\ unitIdx = 1 /\ units[1] = <<>>) =>
        /\ FragLabel(file[1][2]) = return_addr("Sys.init", 0)
        /\ t_jump_count = 0 + 1

\* C4: the labels of the comparisons generated in one translation differ from
\* one another and from every return label generated by a call.
C4_ComparisonLabelsDistinct ==
    \A i, j \in DOMAIN Emitted :
        (/\ i # j
         /\ IsCmpFrag(Emitted[i])
         /\ IsCmpFrag(Emitted[j]) \/ IsCallFrag(Emitted[j]))
        => FragLabel(Emitted[i]) # FragLabel(Emitted[j])

C4_Witness ==
    /\ mpc = "done" /\ needBoot /\ nUnits = 2
    /\ \E i \in DOMAIN file[2] : IsCmpFrag(file[2][i])
    /\ \E i, j \in DOMAIN file[3] :
          /\ IsCmpFrag(file[3][i]) /\ IsCallFrag(file[3][j])
          /\ FragLabel(file[3][i]) = jmp_false(1)

\* the instructions of text T from position i on are "@256 D=A @SP M=D"
SetsSP(T, i) ==
    /\ i + 3 <= Len(T)
    /\ T[i] = AtN(256) /\ T[i + 1] = Cm("D", "A")
    /\ T[i + 2] = AtS("SP") /\ T[i + 3] = Cm("M", "D")

\* C12: when a bootstrap is requested its text is the first text of the
\* output, every unit's text comes after it, and in it SP is set to 256 before
\* the first word pushed by the call of Sys.init; when it is not requested the
\* output holds the units' texts only.
C12_BootstrapFirst ==
    (mpc # "start") =>
        IF needBoot
        THEN /\ Len(file) = 1 + (unitIdx - 1)
             /\ LET T == Flatten(file[1]) IN
                \E i \in DOMAIN T :
                    /\ SetsSP(T, i)
                    /\ \A j \in DOMAIN T : T[j] = Cm("AM", "M+1") => j > i + 3
                    /\ \E j \in DOMAIN T : j > i + 3 /\ T[j] = AtS("Sys.init")
             /\ \A u \in 2..Len(file) : \A h \in DOMAIN file[u] :
                    \A i \in DOMAIN file[u][h] : ~SetsSP(file[u][h], i)
        ELSE /\ Len(file) = unitIdx - 1
             /\ \A h \in DOMAIN OutFrags :
                    \A i \in DOMAIN OutFrags[h] : ~SetsSP(OutFrags[h], i)

C12_Witness ==
    /\ mpc = "done" /\ needBoot /\ nUnits = 2 /\ Len(file) = 3
    /\ SetsSP(Flatten(file[1]), 1)
    /\ file[2] # <<>> /\ file[3] # <<>>

\* the text generated for unit u so far: written to the file once the unit is
\* done, in result_asm while it is translated
UnitText(u) ==
    IF u = unitIdx /\ mpc \in {"lines", "panic"} THEN result_asm
    ELSE file[u + (IF needBoot THEN 1 ELSE 0)]

\* the text of a push or pop of static opens with "@{static_name}.{idx}": a
\* symbol that is no register, and the text is not a call's
IsStaticFrag(f) ==
    /\ Len(f) >= 2 /\ f[1].t = "A" /\ f[1].sym # ""
    /\ f[1].sym \notin DOMAIN Predefined
    /\ ~IsCallFrag(f)

\* the static symbols of unit u's text
StaticSymbolsOf(u) ==
    {UnitText(u)[i][1].sym : i \in {h \in DOMAIN UnitText(u) : IsStaticFrag(UnitText(u)[h])}}

\* the lines of unit u that hold a command
CommandLines(u) == SelectSeq(units[u], LAMBDA l : l # <<>>)

\* C23: the push static i and pop static i of a unit refer to the symbol
\* <the unit's staticName>.i, the same for the same index, and units with
\* different staticName share no static symbol, whatever the indices.
C23_StaticSymbolsPerUnit ==
    \A u \in DOMAIN units :
        /\ Len(UnitText(u)) = Len(CommandLines(u))
        /\ \A h \in DOMAIN UnitText(u) :
               /\ IsStaticFrag(UnitText(u)[h])
               /\ UnitText(u)[h][1].sym = StaticNames[u] \o "." \o CommandLines(u)[h][5]
        /\ \A v \in DOMAIN units \ {u} : StaticSymbolsOf(u) \cap StaticSymbolsOf(v) = {}

C23_Witness ==
    /\ mpc = "done" /\ needBoot /\ nUnits = 2
    /\ units[1] = << <<"push", " ", "static", " ", "2">>, <<"pop", " ", "static", " ", "2">> >>
    /\ units[2] = << <<"pop", " ", "static", " ", "0">> >>
    /\ StaticSymbolsOf(1) = {"Main.2"} /\ StaticSymbolsOf(2) = {"Sys.0"}
    /\ file[2][1][1] = file[2][2][1]

\* the name a `function` line declares, "" for any other line
DeclaredFunction(line) ==
    LET w == SelectSeq(StripComment(line), LAMBDA e : ~IsSpace(e)) IN
    IF Len(w) >= 2 /\ w[1] = "function" THEN w[2] ELSE ""

\* the name of the last `function` line among lines, "System" without one
RECURSIVE MostRecentFunction(_)
MostRecentFunction(lines) ==
    IF lines = <<>> THEN "System"
    ELSE IF DeclaredFunction(lines[Len(lines)]) # ""
         THEN DeclaredFunction(lines[Len(lines)])
         ELSE MostRecentFunction(SubSeq(lines, 1, Len(lines) - 1))

\* C17: while a unit is translated, currentFunction is the name of the most
\* recent `function` line read so far in this unit, or "System" without one,
\* whatever the units before it declared.
C17_CurrentFunction ==
    (mpc = "lines") => func_name = MostRecentFunction(units[unitIdx])

C17_Witness ==
    /\ mpc = "lines" /\ unitIdx = 2
    /\ units[1] = << <<"function", " ", "F", " ", "0">>, <<"eq">> >>
    /\ units[2] = << <<"push", " ", "constant", " ", "7">> >>
    /\ func_name = "System"

\* a line with nothing but white space before its comment or its end
IsBlank(line) == Trim(StripComment(line)) = <<>>

\* the line the loop has just read
LastLine(us) == us[Len(us)][Len(us[Len(us)])]

\* C14 as stated: a blank or comment-only line, white space included, is
\* ignored: no error, no assembly, jumpCounter and currentFunction unchanged.
C14_BlankLinesIgnored ==
    [][(mpc = "lines" /\ units' # units /\ IsBlank(LastLine(units')))
          => (mpc' = "lines" /\ UNCHANGED <<result_asm, t_jump_count, func_name>>)]_vars

-----------------------------------------------------------------------------
(* VMCommand::new applied to one line *)

MaxExtraTokens == 3

\* first tokens: the command words of VMCommand::new and one that is none
FirstTokens ==
    {"push", "pop", "function", "call", "label", "goto", "if-goto",
     "add", "neg", "eq", "return", "bogus"}

\* the tokens that follow
MoreTokens == {"local", "2"}

RECURSIVE Spaced(_)
Spaced(ts) == IF ts = <<>> THEN <<>> ELSE <<" ", Head(ts)>> \o Spaced(Tail(ts))

\* a line: a first token and up to MaxExtraTokens more, single blanks between
\* them, with or without white space around the whole
ParseLines ==
    UNION {UNION {{ <<kw>> \o Spaced(ts),
                    <<" ">> \o <<kw>> \o Spaced(ts) \o <<"\t">> } :
                  ts \in [1..k -> MoreTokens]} :
           kw \in FirstTokens, k \in 0..MaxExtraTokens}

InitParse ==
    /\ fn_in \in ParseLines
    /\ fn_out = <<>>
    /\ IdleMain /\ IdleExec

\* VMCommand::new(&line)
ParseLine ==
    /\ fn_out = <<>>
    /\ fn_out' = <<VMCommand_new(fn_in)>>
    /\ UNCHANGED <<fn_in, mvars, xvars>>

NextParse == ParseLine

SpecParse == InitParse /\ [][NextParse]_vars

\* the tokens of a line: what white space separates
TokenCount(line) ==
    Cardinality({i \in DOMAIN line : ~IsSpace(line[i])})

FirstToken(line) == line[CHOOSE i \in DOMAIN line :
                           ~IsSpace(line[i]) /\ \A h \in 1..(i-1) : IsSpace(line[h])]

\* the token count a first token requires; 0 stands for no command word
RequiredTokens(kw) ==
    CASE kw \in {"push", "pop", "function", "call"} -> 3
      [] kw \in {"label", "goto", "if-goto"} -> 2
      [] kw \in {"sub", "add", "and", "or", "neg", "not", "eq", "gt", "lt", "return"} -> 1
      [] OTHER -> 0

\* C13 as stated: the parser produces a command only for a line with exactly
\* the token count its first token requires, and fails for every other count.
C13_ExactTokenCount ==
    (fn_out # <<>>) =>
        ((fn_out[1].res = "ok") => (TokenCount(fn_in) = RequiredTokens(FirstToken(fn_in))))

-----------------------------------------------------------------------------
(* to_asm applied to one command *)

MaxCounter == 2

SegmentNames ==
    {"local", "argument", "this", "that", "constant", "pointer", "temp", "static"}

\* the commands given: every variant, the segments and one name that is none
GenCommands ==
    {VMCommand(t, g, i) : t \in {"CPush", "CPop"}, g \in SegmentNames \cup {"heap"},
                          i \in {0, 1, 2}}
    \cup {VMCommand("CArithmetic", c, 0) :
             c \in {"sub", "add", "and", "or", "neg", "not", "eq", "gt", "lt"}}
    \cup {VMCommand(t, l, 0) : t \in {"CLabel", "CGoto", "CIf"}, l \in {"LOOP", "END"}}
    \cup {VMCommand(t, "F", n) : t \in {"CFunction", "CCall"}, n \in {0, 1}}
    \cup {VMCommand("CReturn", "return", 0)}

\* the function names a command is generated under
FuncNames == {"System", "F", "G"}

InitGen ==
    /\ fn_in \in [cmd : GenCommands, jump_count : 0..MaxCounter,
                   static_name : {"Main", "Sys"}, curr_fname : FuncNames]
    /\ fn_out = <<>>
    /\ IdleMain /\ IdleExec

\* vm_.to_asm(jump_count, static_name, curr_fname)
Generate ==
    /\ fn_out = <<>>
    /\ fn_out' = <<to_asm(fn_in.cmd, fn_in.jump_count, fn_in.static_name, fn_in.curr_fname)>>
    /\ UNCHANGED <<fn_in, mvars, xvars>>

NextGen == Generate

SpecGen == InitGen /\ [][NextGen]_vars

\* a push or pop the addressing table has no address for
OutsideTable(cmd) ==
    /\ cmd.tag \in {"CPush", "CPop"}
    /\ \/ cmd.tag = "CPop" /\ cmd.seg = "constant"
       \/ cmd.seg \notin SegmentNames
       \/ cmd.seg = "pointer" /\ cmd.idx \notin {0, 1}

\* C15: pop constant i, and a push or pop of an unknown segment or of pointer
\* with an index other than 0 and 1, return an error and no assembly.
C15_OutsideTableRejected ==
    (fn_out # <<>> /\ OutsideTable(fn_in.cmd)) =>
        (~fn_out[1].ok /\ fn_out[1].asm = <<>>)

C15_Witness ==
    /\ fn_out # <<>> /\ ~fn_out[1].ok
    /\ fn_in.cmd = VMCommand("CPop", "constant", 1)

\* the labels a text defines
Markers(asm) == {asm[i].sym : i \in {h \in DOMAIN asm : asm[h].t = "L"}}

\* C16: generating a comparison or a call hands back jumpCounter + 1 and its
\* label is written with the value before the increment; every other command
\* hands the counter back unchanged.
C16_CounterStep ==
    (fn_out # <<>> /\ fn_out[1].ok) =>
        LET c == fn_in.cmd
            k == fn_in.jump_count
        IN  CASE c.tag = "CArithmetic" /\ c.seg \in {"eq", "gt", "lt"} ->
                    /\ fn_out[1].jc = k + 1
                    /\ Markers(fn_out[1].asm) = {"JMP_FALSE" \o ToString(k)}
              [] c.tag = "CCall" ->
                    /\ fn_out[1].jc = k + 1
                    /\ Markers(fn_out[1].asm) = {c.seg \o "$ret." \o ToString(k)}
              [] OTHER -> fn_out[1].jc = k

C16_Witness ==
    /\ fn_out # <<>> /\ fn_in.cmd.tag = "CCall" /\ fn_in.jump_count = 2
    /\ fn_out[1].ok /\ fn_out[1].jc = 3
    /\ Markers(fn_out[1].asm) = {"F$ret.2"}

\* the symbols a text refers to or defines
Symbols(asm) == {asm[i].sym : i \in {h \in DOMAIN asm : asm[h].sym # ""}}

\* C20: label X, goto X and if-goto X generated under currentFunction F all
\* use the symbol F$X, and label X under another currentFunction gives
\* another marker.
C20_QualifiedLabels ==
    (fn_out # <<>> /\ fn_in.cmd.tag \in {"CLabel", "CGoto", "CIf"}) =>
        LET X == fn_in.cmd.seg
            F == fn_in.curr_fname
        IN  /\ fn_out[1].ok
            /\ Symbols(fn_out[1].asm) \ {"SP"} = {F \o "$" \o X}
            /\ \A G \in FuncNames \ {F} :
                   Markers(clabel2asm(X, G)) # Markers(clabel2asm(X, F))
            /\ fn_in.cmd.tag = "CLabel" => Markers(fn_out[1].asm) = {F \o "$" \o X}

C20_Witness ==
    /\ fn_out # <<>> /\ fn_in.cmd = VMCommand("CIf", "LOOP", 0)
    /\ fn_in.curr_fname = "G"
    /\ \E i \in DOMAIN fn_out[1].asm : fn_out[1].asm[i] = AtS("G$LOOP")

-----------------------------------------------------------------------------
(* The root crate, src/src/main.rs: push, pop and arithmetic only *)

\* an emitted line that is neither "@...", "dest=comp;jump" nor "(...)"
Raw(line) == [t |-> "?", sym |-> line, num |-> 0, dest |-> "", comp |-> "", jump |-> ""]

\* VMCommand::new of the root crate
root_VMCommand_new(line) ==
    LET v  == Split(Trim(line))
        v0 == Join(v[1])
    IN  CASE v0 = "push" -> WithNameAndNumber("CPush", v)
          [] v0 = "pop"  -> WithNameAndNumber("CPop", v)
          [] v0 \in {"sub", "add", "and", "or", "neg", "not", "eq", "gt", "lt"} ->
                            Parsed(VMCommand("CArithmetic", v0, 0))
          [] OTHER       -> ParseErr

\* cpush2asm of the root crate: the push is "@SP\nA=M\nM=D\n@SP\nM=M+1"
root_cpush2asm(seg, idx, static_name) ==
    LET s == CASE seg = "constant" -> Ok(0, <<AtN(idx), Cm("D", "A")>>)
               [] seg = "pointer" /\ idx = 0 -> Ok(0, <<AtS("THIS"), Cm("D", "M")>>)
               [] seg = "pointer" /\ idx = 1 -> Ok(0, <<AtS("THAT"), Cm("D", "M")>>)
               [] seg = "temp" ->
                    Ok(0, <<AtN(5), Cm("D", "A"), AtN(idx), Cm("A", "D+A"), Cm("D", "M")>>)
               [] seg = "static" ->
                    Ok(0, <<AtS(static_name \o "." \o ToString(idx)), Cm("D", "M")>>)
               [] OTHER ->
                    LET mem_seg == get_mem_seg(seg) IN
                    IF mem_seg.ok
                    THEN Ok(0, <<AtS(mem_seg.v), Cm("D", "M"), AtN(idx),
                                 Cm("A", "D+A"), Cm("D", "M")>>)
                    ELSE Err
    IN  IF s.ok
        THEN Ok(0, s.asm \o <<AtS("SP"), Cm("A", "M"), Cm("M", "D"), AtS("SP"), Cm("M", "M+1")>>)
        ELSE Err

\* cpop2asm of the root crate, its lines as written: "@THISD=A" and "R15"
root_cpop2asm(seg, idx, static_name) ==
    LET s == CASE seg = "pointer" /\ idx = 0 -> Ok(0, <<AtS("THISD=A")>>)
               [] seg = "pointer" /\ idx = 1 -> Ok(0, <<AtS("THATD=A")>>)
               [] seg = "temp" ->
                    Ok(0, <<AtN(5), Cm("D", "A"), AtN(idx), Cm("D", "D+A")>>)
               [] seg = "static" ->
                    Ok(0, <<AtS(static_name \o "." \o ToString(idx)), Cm("D", "A")>>)
               [] OTHER ->
                    LET mem_seg == get_mem_seg(seg) IN
                    IF mem_seg.ok
                    THEN Ok(0, <<AtS(mem_seg.v), Cm("D", "M"), AtN(idx), Cm("D", "D+A")>>)
                    ELSE Err
    IN  IF s.ok
        THEN Ok(0, s.asm \o <<AtS("R15"), Cm("M", "D"), AtS("SP"), Cm("AM", "M-1"),
                              Cm("D", "M"), Raw("R15"), Cm("A", "M"), Cm("M", "D")>>)
        ELSE Err

\* carithmetic2asm of the root crate: jump_count is read for the label and
\* never assigned; Ok(jc, text) hands back the counter as the caller finds it
root_carithmetic2asm(comm, jc) ==
    CASE comm \in {"neg", "not"} ->
            Ok(jc,
               <<AtS("SP"), Cm("AM", "M-1"), Cm("MD", get_si_op(comm).v \o "M"),
                 AtS("SP"), Cm("M", "M+1")>>)
      [] comm \in {"add", "sub", "and", "or"} ->
            Ok(jc,
               <<AtS("SP"), Cm("AM", "M-1"), Cm("D", "M"), Cm("A", "A-1"),
                 Cm("MD", "M" \o get_bi_op(comm).v \o "D")>>)
      [] comm \in {"eq", "gt", "lt"} ->
            Ok(jc,
               <<AtS("R15"), Cm("M", "-1"),
                 AtS("SP"), Cm("AM", "M-1"), Cm("D", "M"), Cm("A", "A-1"), Cm("D", "M-D"),
                 AtS("JMP_FALSE" \o ToString(jc)), Jm("", "D", get_cmp_op(comm).v),
                 AtS("R15"), Cm("M", "0"),
                 Lb("JMP_FALSE" \o ToString(jc)),
                 AtS("R15"), Cm("D", "M"), AtS("SP"), Cm("A", "M-1"), Cm("M", "D")>>)
      [] OTHER -> Err

\* to_asm of the root crate
root_to_asm(cmd, jc, static_name) ==
    CASE cmd.tag = "CArithmetic" -> root_carithmetic2asm(cmd.seg, jc)
      [] cmd.tag = "CPush" ->
            LET r == root_cpush2asm(cmd.seg, cmd.idx, static_name) IN
            IF r.ok THEN Ok(jc, r.asm) ELSE Err
      [] cmd.tag = "CPop" ->
            LET r == root_cpop2asm(cmd.seg, cmd.idx, static_name) IN
            IF r.ok THEN Ok(jc, r.asm) ELSE Err
      [] OTHER -> Err

\* the lines a unit's reader may deliver to the root crate
RootLines ==
    { <<"eq">>, <<"gt">>, <<"lt", " ", "//", "cmp">>, <<"add">>,
      <<"push", " ", "constant", " ", "7">>,
      <<"pop", " ", "pointer", " ", "0">>,
      <<>>,
      <<"label", " ", "X">> }

\* translate_vm of the root crate on entry: let mut jump_count: u64 = 0
InitRoot ==
    /\ mpc = "root_lines"
    /\ needBoot = FALSE /\ nUnits = 1 /\ unitIdx = 1
    /\ jump_count = 0 /\ file = <<>>
    /\ units = << <<>> >>
    /\ t_jump_count = 0 /\ func_name = "" /\ result_asm = <<>>
    /\ IdleExec /\ IdlePure

\* one pass of the root crate's loop
RootTranslateLine(line) ==
    /\ mpc = "root_lines" /\ LinesRead < MaxLines
    /\ units' = [units EXCEPT ![unitIdx] = Append(@, line)]
    /\ LET line_ == StripComment(line) IN
       IF Len(line_) = 0
       THEN UNCHANGED <<mpc, t_jump_count, result_asm>>
       ELSE LET vm_ == root_VMCommand_new(line_) IN
            IF vm_.res # "ok"
            THEN mpc' = "panic" /\ UNCHANGED <<t_jump_count, result_asm>>
            ELSE LET asm_ == root_to_asm(vm_.cmd, t_jump_count, StaticNames[unitIdx]) IN
                 IF ~asm_.ok
                 THEN mpc' = "panic" /\ UNCHANGED <<t_jump_count, result_asm>>
                 ELSE /\ t_jump_count' = asm_.jc
                      /\ result_asm' = Append(result_asm, asm_.asm)
                      /\ UNCHANGED mpc
    /\ UNCHANGED <<needBoot, nUnits, unitIdx, jump_count, file, func_name, xvars, pvars>>

\* Ok(result_asm), written to the unit's .asm file by main
RootTranslateEnd ==
    /\ mpc = "root_lines"
    /\ file' = Append(file, result_asm)
    /\ mpc' = "done"
    /\ UNCHANGED <<needBoot, nUnits, unitIdx, jump_count, units,
                   t_jump_count, func_name, result_asm, xvars, pvars>>

NextRoot ==
    \/ \E line \in RootLines : RootTranslateLine(line)
    \/ RootTranslateEnd

SpecRoot == InitRoot /\ [][NextRoot]_vars

\* C24 as stated: in the root crate the unit's jump counter has gone up by one
\* for each comparison emitted, and the comparisons of a unit define
\* different JMP_FALSE<k> labels.
C24_RootComparisonLabels ==
    /\ t_jump_count = Cardinality({i \in DOMAIN result_asm : IsCmpFrag(result_asm[i])})
    /\ \A i, j \in DOMAIN result_asm :
          (i # j /\ IsCmpFrag(result_asm[i]) /\ IsCmpFrag(result_asm[j]))
          => FragLabel(result_asm[i]) # FragLabel(result_asm[j])

\* C5 as stated: a run that fails leaves nothing in the output, and a run that
\* ends leaves the bootstrap text (if asked for) and every unit's text.
C5_AllOrNothing ==
    /\ mpc = "panic" => file = <<>>
    /\ mpc = "done"  => Len(file) = nUnits + (IF needBoot THEN 1 ELSE 0)

=============================================================================
